---- MODULE Spec2Model ----
(***************************************************************************)
(* A model of the `configurable` crate: the Configurable trait (ensure_dir, *)
(* load, load_or_default, save, dir) over a small filesystem, two threads   *)
(* saving concurrently, and the Env overlay loader (Env::load, Env::env).   *)
(***************************************************************************)
EXTENDS Integers, Sequences, FiniteSets, TLC

VARIABLES
    dirs,          \* the directories that exist on the filesystem
    files,         \* file path -> NoFile | NotUtf8 | Text(a sequence of lines)
    writableRoots, \* the base directories under which a directory can be created
    ret,           \* the last Configurable call: [op, ty, arg, res]
    saved,         \* type -> <<v>> when save(v) returned Ok and the file is untouched since
    pc,            \* thread -> position inside a concurrent save
    buf,           \* thread -> the text its save serialized
    tres,          \* thread -> the result its save returned
    events,        \* the filesystem events of the concurrent saves, in order
    envFile,       \* the overlay file: NoFile | sequence of lines (sequences of characters)
    procEnv,       \* the process environment: key -> value
    envRet,        \* the last Env call: [op, key, status, map, val]
    crashed        \* the process panicked

vars == <<dirs, files, writableRoots, ret, saved, pc, buf, tres, events,
          envFile, procEnv, envRet, crashed>>

persistVars == <<dirs, files, writableRoots, ret, saved>>
threadVars == <<pc, buf, tres, events>>
envVars == <<envFile, procEnv, envRet, crashed>>

----------------------------------------------------------------------------
(* Bounds *)

\* the largest port number a value carries
MaxPort == 0

\* the largest number of lines of the overlay file
MaxLines == 3

----------------------------------------------------------------------------
(* Option<T> *)

None == <<>>
Some(x) == <<x>>

----------------------------------------------------------------------------
(* The persisted value type: a struct { name: String, port: Option<u16> }   *)
(* that derives Default, Serialize and Deserialize.                         *)

Names == {"", "a"}
Ports == 0..MaxPort

Value == [name : Names, port : {None} \cup {Some(p) : p \in Ports}]

\* Default::default(): the empty string and None
Default == [name |-> "", port |-> None]

----------------------------------------------------------------------------
(* TOML text: a sequence of lines. A line is `key = "s"`, `key = n`, or     *)
(* something that is not TOML at all.                                       *)

StrLine(k, s) == [key |-> k, ty |-> "str", s |-> s, n |-> 0]
IntLine(k, n) == [key |-> k, ty |-> "int", s |-> "", n |-> n]
BadLine == [key |-> "", ty |-> "bad", s |-> "", n |-> 0]

\* a mutant of ToStringPretty: the optional field is never written
ToStringPrettyNoPort(v) == <<StrLine("name", v.name)>>

\* toml::to_string_pretty(&self): one line per field in declaration order;
\* a None field is left out
ToStringPretty(v) ==
    <<StrLine("name", v.name)>>
        \o (IF v.port = None THEN <<>> ELSE <<IntLine("port", v.port[1])>>)

LinesOf(text, k) == {i \in 1..Len(text) : text[i].key = k}

\* toml::from_str::<Value>(&data): fails on a line that is not TOML, on a
\* duplicate key, on a missing `name`, and on a field of the wrong type;
\* unknown keys are ignored and a missing `port` is None
FromStr(text) ==
    LET nameAt == LinesOf(text, "name")
        portAt == LinesOf(text, "port")
        wellFormed ==
            /\ \A i \in 1..Len(text) : text[i].ty # "bad"
            /\ \A i, j \in 1..Len(text) : text[i].key = text[j].key => i = j
            /\ nameAt # {}
            /\ \A i \in nameAt : text[i].ty = "str" /\ text[i].s \in Names
            /\ \A i \in portAt : text[i].ty = "int" /\ text[i].n \in Ports
    IN  IF wellFormed
        THEN [ok |-> TRUE,
              val |-> [name |-> text[CHOOSE i \in nameAt : TRUE].s,
                       port |-> IF portAt = {} THEN None
                                ELSE Some(text[CHOOSE i \in portAt : TRUE].n)]]
        ELSE [ok |-> FALSE, val |-> Default]

----------------------------------------------------------------------------
(* The types that implement Configurable: their constants and the trait     *)
(* (Config or Data) their ensure_dir delegates to.                          *)

MyConfig == [kind |-> "Config", QUALIFIER |-> "com.github",
             ORGANIZATION |-> "museun", APPLICATION |-> "foobar",
             NAME |-> "config.toml"]
MyMap == [kind |-> "Data", QUALIFIER |-> "com.github",
          ORGANIZATION |-> "museun", APPLICATION |-> "foobar",
          NAME |-> "mapping.json"]
Foo == [kind |-> "Config", QUALIFIER |-> "com.github",
        ORGANIZATION |-> "some_org", APPLICATION |-> "foobar",
        NAME |-> "config.toml"]

Types == {MyConfig, MyMap, Foo}

\* ProjectDirs::from(qualifier, org, app).data_dir()
DataDir(T) == <<"data_home", T.QUALIFIER, T.ORGANIZATION, T.APPLICATION>>

\* ProjectDirs::from(qualifier, org, app).config_dir()
ConfigDir(T) == <<"config_home", T.QUALIFIER, T.ORGANIZATION, T.APPLICATION>>

ProjectDir(T) == IF T.kind = "Data" THEN DataDir(T) ELSE ConfigDir(T)

Roots == {"config_home", "data_home"}

\* dir.join(Self::NAME)
Join(dir, name) == Append(dir, name)

FilePath(T) == Join(ProjectDir(T), T.NAME)

AllFiles == {FilePath(T) : T \in Types}

----------------------------------------------------------------------------
(* The filesystem *)

\* what a path holds: nothing, bytes that are not UTF-8, or text
NoFile == [kind |-> "none", text |-> <<>>]
NotUtf8 == [kind |-> "binary", text |-> <<>>]
Text(t) == [kind |-> "text", text |-> t]

IsText(c) == c.kind = "text"

FS == [dirs |-> dirs, files |-> files, roots |-> writableRoots]

\* fs::create_dir_all(&dirs): succeeds on an existing directory, creates a
\* missing one when the base directory allows it, and fails otherwise
CreateDirAll(fs, d) ==
    IF d \in fs.dirs THEN [ok |-> TRUE, fs |-> fs]
    ELSE IF d[1] \in fs.roots
         THEN [ok |-> TRUE, fs |-> [fs EXCEPT !.dirs = @ \cup {d}]]
         ELSE [ok |-> FALSE, fs |-> fs]

\* fs::read_to_string(path): fails on a missing file and on one that is not UTF-8
ReadToString(fs, p) ==
    IF IsText(fs.files[p]) THEN [ok |-> TRUE, data |-> fs.files[p].text]
    ELSE [ok |-> FALSE, data |-> <<>>]

\* a mutant of FileCreate: the file is opened without truncating it
FileCreateNoTruncate(c) == IF IsText(c) THEN c ELSE Text(<<>>)

\* File::create(path) inside fs::write: the file is created, or truncated
FileCreate(c) == Text(<<>>)

\* write_all(contents) on a file opened at offset 0: the bytes overwrite the
\* start of the file and what lies beyond them stays
WriteAll(c, data) ==
    Text(IF Len(c.text) > Len(data)
         THEN data \o SubSeq(c.text, Len(data) + 1, Len(c.text))
         ELSE data)

\* fs::write(path, contents): create or truncate, then write everything.
\* The directory exists whenever this is reached (ensure_dir came first).
FsWrite(fs, p, data) ==
    [fs EXCEPT !.files[p] = WriteAll(FileCreate(@), data)]

----------------------------------------------------------------------------
(* Results *)

NoVal == [name |-> "-", port |-> None]
NoPath == <<>>

Ok(state, val, path) ==
    [tag |-> "Ok", err |-> "", state |-> state, val |-> val, path |-> path]
Err(kind) ==
    [tag |-> "Err", err |-> kind, state |-> "", val |-> NoVal, path |-> NoPath]
NoRes == [tag |-> "-", err |-> "", state |-> "", val |-> NoVal, path |-> NoPath]

----------------------------------------------------------------------------
(* Configurable *)

\* a mutant of ensure_dir: the path is returned without creating the directory
ensure_dir_no_create(T, fs) ==
    [res |-> Ok("", NoVal, ProjectDir(T)), fs |-> fs]

\* Config::ensure_dir / Data::ensure_dir
ensure_dir(T, fs) ==
    LET d == ProjectDir(T)
        c == CreateDirAll(fs, d)
    IN  IF c.ok THEN [res |-> Ok("", NoVal, d), fs |-> c.fs]
        ELSE [res |-> Err("Write"), fs |-> c.fs]

\* a mutant of load: the parse error is returned instead of the default
load_strict(T, fs) ==
    LET e == ensure_dir(T, fs) IN
    IF e.res.tag = "Err" THEN [res |-> e.res, fs |-> e.fs]
    ELSE LET r == ReadToString(e.fs, Join(e.res.path, T.NAME)) IN
         IF ~r.ok THEN [res |-> Err("Read"), fs |-> e.fs]
         ELSE LET t == FromStr(r.data) IN
              IF t.ok THEN [res |-> Ok("", t.val, NoPath), fs |-> e.fs]
              ELSE [res |-> Err("TomlRead"), fs |-> e.fs]

\* Configurable::load
load(T, fs) ==
    LET e == ensure_dir(T, fs) IN
    IF e.res.tag = "Err" THEN [res |-> e.res, fs |-> e.fs]
    ELSE LET r == ReadToString(e.fs, Join(e.res.path, T.NAME)) IN
         IF ~r.ok THEN [res |-> Err("Read"), fs |-> e.fs]
         ELSE LET t == FromStr(r.data) IN
              \* .map_err(Error::TomlRead).unwrap_or_default()
              [res |-> Ok("", IF t.ok THEN t.val ELSE Default, NoPath), fs |-> e.fs]

\* a mutant of load_or_default: every error is replaced by the default
load_or_default_any_err(T, fs) ==
    LET l == load(T, fs) IN
    IF l.res.tag = "Ok" THEN [res |-> Ok("Loaded", l.res.val, NoPath), fs |-> l.fs]
    ELSE [res |-> Ok("Default", Default, NoPath), fs |-> l.fs]

\* a mutant of load_or_default: the default is written to the file
load_or_default_saving(T, fs) ==
    LET l == load(T, fs) IN
    IF l.res.tag = "Ok" THEN [res |-> Ok("Loaded", l.res.val, NoPath), fs |-> l.fs]
    ELSE IF l.res.err = "Read"
         THEN [res |-> Ok("Default", Default, NoPath),
               fs |-> FsWrite(l.fs, FilePath(T), ToStringPretty(Default))]
         ELSE [res |-> l.res, fs |-> l.fs]

\* a mutant of load_or_default: a value read from the file is reported as defaulted
load_or_default_tag(T, fs) ==
    LET l == load(T, fs) IN
    IF l.res.tag = "Ok" THEN [res |-> Ok("Default", l.res.val, NoPath), fs |-> l.fs]
    ELSE IF l.res.err = "Read"
         THEN [res |-> Ok("Default", Default, NoPath), fs |-> l.fs]
         ELSE [res |-> l.res, fs |-> l.fs]

\* Configurable::load_or_default
load_or_default(T, fs) ==
    LET l == load(T, fs) IN
    IF l.res.tag = "Ok" THEN [res |-> Ok("Loaded", l.res.val, NoPath), fs |-> l.fs]
    ELSE IF l.res.err = "Read"
         THEN [res |-> Ok("Default", Default, NoPath), fs |-> l.fs]
         ELSE [res |-> l.res, fs |-> l.fs]

\* Configurable::save
save(T, v, fs) ==
    LET e == ensure_dir(T, fs) IN
    IF e.res.tag = "Err" THEN [res |-> e.res, fs |-> e.fs]
    ELSE [res |-> Ok("", NoVal, NoPath),
          fs |-> FsWrite(e.fs, Join(e.res.path, T.NAME), ToStringPretty(v))]

\* Configurable::dir
dir(T, fs) == ensure_dir(T, fs)

----------------------------------------------------------------------------
(* What another program can leave in the file *)

ForeignTexts ==
    { <<BadLine>>,
      <<IntLine("name", 0)>>,
      <<IntLine("port", 0), StrLine("name", "a")>> }

ForeignContents == {Text(t) : t \in ForeignTexts} \cup {NotUtf8}

----------------------------------------------------------------------------
(* Strings are sequences of characters *)

Min(S) == CHOOSE x \in S : \A y \in S : x <= y
Max(S) == CHOOSE x \in S : \A y \in S : x >= y

\* str::starts_with(char)
StartsWith(s, c) == Len(s) > 0 /\ s[1] = c

\* str::trim: leading and trailing whitespace removed
Trim(s) ==
    LET solid == {i \in 1..Len(s) : s[i] # " "} IN
    IF solid = {} THEN <<>> ELSE SubSeq(s, Min(solid), Max(solid))

\* str::splitn(2, c): the whole string when c does not occur, otherwise
\* what precedes the first c and everything after it
SplitN2(s, c) ==
    LET at == {i \in 1..Len(s) : s[i] = c} IN
    IF at = {} THEN <<s>>
    ELSE <<SubSeq(s, 1, Min(at) - 1), SubSeq(s, Min(at) + 1, Len(s))>>

----------------------------------------------------------------------------
(* Maps (HashMap<String, String>, the process environment): sets of         *)
(* <<key, value>> pairs with one pair per key                               *)

KeysOf(m) == {e[1] : e \in m}
Get(m, k) == (CHOOSE e \in m : e[1] = k)[2]
Put(m, k, v) == {e \in m : e[1] # k} \cup {<<k, v>>}

\* HashMap::remove(key) / env::var(key).ok()
Lookup(m, k) == IF k \in KeysOf(m) THEN Some(Get(m, k)) ELSE None

----------------------------------------------------------------------------
(* Env *)

\* the overlay file: missing, or its lines
NoOverlay == [kind |-> "none", lines |-> <<>>]
Overlay(lines) == [kind |-> "text", lines |-> lines]

\* env::set_var panics on an empty key and on a key that contains '='
SetVarPanics(k) == k = <<>> \/ \E i \in 1..Len(k) : k[i] = "="

\* the filter of src/env.rs: lines beginning with '#' are dropped
KeepLine(line) == ~StartsWith(line, "#")

\* the filter of src/lib.rs: only lines beginning with '#' are kept
LibKeepLine(line) == StartsWith(line, "#")

\* the iterator chain of Env::load, one line at a time: filter, filter_map
\* (splitn, trim, both parts needed), inspect (set_var), collect
RECURSIVE LoadLines(_, _, _, _, _)
LoadLines(lib, lines, i, map, env) ==
    IF i > Len(lines) THEN [status |-> "ok", map |-> map, env |-> env]
    ELSE IF ~(IF lib THEN LibKeepLine(lines[i]) ELSE KeepLine(lines[i]))
    THEN LoadLines(lib, lines, i + 1, map, env)
    ELSE LET parts == SplitN2(lines[i], "=") IN
         IF Len(parts) < 2 THEN LoadLines(lib, lines, i + 1, map, env)
         ELSE LET k == Trim(parts[1])
                  v == Trim(parts[2])
              IN  IF SetVarPanics(k)
                  THEN [status |-> "panic", map |-> {}, env |-> env]
                  ELSE LoadLines(lib, lines, i + 1, Put(map, k, v), Put(env, k, v))

\* Env::load of src/env.rs; a file that cannot be read gives env::vars()
Env_load(file, env) ==
    IF file.kind = "text" THEN LoadLines(FALSE, file.lines, 1, {}, env)
    ELSE [status |-> "ok", map |-> env, env |-> env]

\* Env::load of src/lib.rs
Lib_Env_load(file, env) ==
    IF file.kind = "text" THEN LoadLines(TRUE, file.lines, 1, {}, env)
    ELSE [status |-> "ok", map |-> env, env |-> env]

\* Self::load(".env").remove(key).or_else(|| env::var(key).ok())
RemoveOrElseVar(l, key) ==
    IF l.status = "panic" THEN [status |-> "panic", val |-> None, env |-> l.env]
    ELSE [status |-> "ok",
          val |-> IF Lookup(l.map, key) # None THEN Lookup(l.map, key)
                  ELSE Lookup(l.env, key),
          env |-> l.env]

\* Env::env of src/env.rs
Env_env(key, file, env) == RemoveOrElseVar(Env_load(file, env), key)

\* Env::env of src/lib.rs
Lib_Env_env(key, file, env) == RemoveOrElseVar(Lib_Env_load(file, env), key)

NoEnvRet == [op |-> "none", key |-> <<>>, status |-> "", map |-> {}, val |-> None]

\* the lines an overlay file is made of
Lines ==
    { <<"A", "=", "x">>,
      <<"#", " ", "c">>,
      <<"B", " ", "=", " ", "\"", "y", "\"">>,
      <<"=", "x">>,
      <<"B", "=">>,
      <<"A", "x">>,
      <<"#", "A", "=", "x">> }

OverlayFiles ==
    {NoOverlay} \cup
    {Overlay(l) : l \in UNION {[1..n -> Lines] : n \in 0..MaxLines}}

QueryKeys == {<<"A">>, <<"B">>, <<"C">>}

\* the environment the process starts with
InitialEnvs == {{<<k, <<"z">>>> : k \in S} : S \in SUBSET {<<"A">>, <<"B">>}}

EnvStep(op, key, status, map, val, env) ==
    /\ procEnv' = env
    /\ envRet' = [op |-> op, key |-> key, status |-> status, map |-> map, val |-> val]
    /\ crashed' = (status = "panic")
    /\ UNCHANGED <<envFile, persistVars, threadVars>>

DoEnvLoad ==
    /\ ~crashed
    /\ LET out == Env_load(envFile, procEnv) IN
       EnvStep("load", <<>>, out.status, out.map, None, out.env)

DoEnvEnv(key) ==
    /\ ~crashed
    /\ LET out == Env_env(key, envFile, procEnv) IN
       EnvStep("env", key, out.status, {}, out.val, out.env)

DoLibEnvLoad ==
    /\ ~crashed
    /\ LET out == Lib_Env_load(envFile, procEnv) IN
       EnvStep("lib_load", <<>>, out.status, out.map, None, out.env)

DoLibEnvEnv(key) ==
    /\ ~crashed
    /\ LET out == Lib_Env_env(key, envFile, procEnv) IN
       EnvStep("lib_env", key, out.status, {}, out.val, out.env)

----------------------------------------------------------------------------
(* The sequential program: one call at a time, and the world around it *)

Apply(op, T, arg, out) ==
    /\ dirs' = out.fs.dirs
    /\ files' = out.fs.files
    /\ ret' = [op |-> op, ty |-> T, arg |-> arg, res |-> out.res]
    /\ UNCHANGED <<writableRoots, threadVars, envVars>>

DoDir(T) ==
    /\ Apply("dir", T, NoVal, dir(T, FS))
    /\ UNCHANGED saved

DoLoad(T) ==
    /\ Apply("load", T, NoVal, load(T, FS))
    /\ UNCHANGED saved

DoLoadOrDefault(T) ==
    /\ Apply("load_or_default", T, NoVal, load_or_default(T, FS))
    /\ UNCHANGED saved

DoSave(T, v) ==
    LET out == save(T, v, FS) IN
    /\ Apply("save", T, v, out)
    /\ saved' = IF out.res.tag = "Ok" THEN [saved EXCEPT ![T] = Some(v)] ELSE saved

\* another program writes the file (its directory exists)
ForeignWrite(T, c) ==
    /\ ProjectDir(T) \in dirs
    /\ files[FilePath(T)] # c
    /\ files' = [files EXCEPT ![FilePath(T)] = c]
    /\ saved' = [saved EXCEPT ![T] = None]
    /\ UNCHANGED <<dirs, writableRoots, ret, threadVars, envVars>>

\* another program removes the file
ForeignRemove(T) ==
    /\ files[FilePath(T)] # NoFile
    /\ files' = [files EXCEPT ![FilePath(T)] = NoFile]
    /\ saved' = [saved EXCEPT ![T] = None]
    /\ UNCHANGED <<dirs, writableRoots, ret, threadVars, envVars>>

Threads == {1, 2}

IdleThreads ==
    /\ pc = [t \in Threads |-> "idle"]
    /\ buf = [t \in Threads |-> <<>>]
    /\ tres = [t \in Threads |-> NoRes]
    /\ events = <<>>

NoEnv ==
    /\ envFile = NoOverlay
    /\ procEnv = {}
    /\ envRet = NoEnvRet
    /\ crashed = FALSE

Init ==
    /\ dirs = {}
    /\ files = [p \in AllFiles |-> NoFile]
    /\ writableRoots \in SUBSET Roots
    /\ ret = [op |-> "none", ty |-> MyConfig, arg |-> NoVal, res |-> NoRes]
    /\ saved = [T \in Types |-> None]
    /\ IdleThreads
    /\ NoEnv

Next ==
    \/ \E T \in Types : DoDir(T)
    \/ \E T \in Types : DoLoad(T)
    \/ \E T \in Types : DoLoadOrDefault(T)
    \/ \E T \in Types, v \in Value : DoSave(T, v)
    \/ \E T \in Types, c \in ForeignContents : ForeignWrite(T, c)
    \/ \E T \in Types : ForeignRemove(T)

Spec == Init /\ [][Next]_vars

----------------------------------------------------------------------------
(* Claims about Configurable, checked under Spec *)

DirResolvable(T) == ProjectDir(T) \in dirs \/ ProjectDir(T)[1] \in writableRoots

\* C1: when save(v) returned Ok and nothing else touched the file since, the
\* next load() returns Ok(w) with w = v.
C1_RoundTrip ==
    [][\A T \in Types :
          (DoLoad(T) /\ saved[T] # None)
              => ret'.res = Ok("", saved[T][1], NoPath)]_vars

\* C1 witness: a value that differs from the default in both fields was saved
\* and then loaded back.
C1_Witness ==
    /\ ret.op = "load"
    /\ ret.res.tag = "Ok"
    /\ saved[ret.ty] = Some(ret.res.val)
    /\ ret.res.val.name = "a"
    /\ ret.res.val.port # None

\* C2 as stated: with no file at the path, load_or_default() returns
\* Ok(Defaulted(default())) and there is still no file afterwards.
C2_AlwaysDefaulted ==
    [][\A T \in Types :
          (DoLoadOrDefault(T) /\ files[FilePath(T)] = NoFile)
              => /\ ret'.res = Ok("Default", Default, NoPath)
                 /\ files'[FilePath(T)] = NoFile]_vars

\* C2 amended: with no file at the path, load_or_default() leaves the path
\* without a file; it returns Ok(Defaulted(default())) when ensure_dir
\* succeeds, and the WriteFailure of ensure_dir when the directory cannot be
\* created.
C2_DefaultedUnlessDirFails ==
    [][\A T \in Types :
          (DoLoadOrDefault(T) /\ files[FilePath(T)] = NoFile)
              => /\ files' = files
                 /\ ret'.res = IF DirResolvable(T)
                               THEN Ok("Default", Default, NoPath)
                               ELSE Err("Write")]_vars

\* C2 witness: load_or_default defaulted, the directory exists and the file
\* does not.
C2_Witness ==
    /\ ret.op = "load_or_default"
    /\ ret.res = Ok("Default", Default, NoPath)
    /\ ProjectDir(ret.ty) \in dirs
    /\ files[FilePath(ret.ty)] = NoFile

\* C3: when the file holds a value v that save wrote and nothing modified
\* since, load_or_default() returns Ok(Loaded(v)).
C3_LoadedSaved ==
    [][\A T \in Types :
          (DoLoadOrDefault(T) /\ saved[T] # None)
              => ret'.res = Ok("Loaded", saved[T][1], NoPath)]_vars

\* C3 witness: load_or_default reported Loaded with a saved value that is not
\* the default.
C3_Witness ==
    /\ ret.op = "load_or_default"
    /\ ret.res.state = "Loaded"
    /\ saved[ret.ty] = Some(ret.res.val)
    /\ ret.res.val # Default

InvalidToml(c) == IsText(c) /\ ~FromStr(c.text).ok

\* C4: on a readable file whose text is not valid TOML for the type, load()
\* returns Ok(default) and load_or_default() returns Ok(Loaded(default));
\* no call ever returns the TomlRead error.
C4_ParseErrorMasked ==
    [][/\ ret'.res.err # "TomlRead"
       /\ \A T \in Types :
             InvalidToml(files[FilePath(T)])
                 => /\ DoLoad(T) => ret'.res = Ok("", Default, NoPath)
                    /\ DoLoadOrDefault(T)
                           => ret'.res = Ok("Loaded", Default, NoPath)]_vars

\* C4 witness: load_or_default reported Loaded(default) on a file that holds
\* a line that is not TOML.
C4_Witness ==
    /\ ret.op = "load_or_default"
    /\ ret.res = Ok("Loaded", Default, NoPath)
    /\ files[FilePath(ret.ty)] = Text(<<BadLine>>)

\* C5: load_or_default() returns Defaulted exactly when load() fails with
\* Read (the directory resolves and the file is missing or unreadable), and
\* returns any other error of load() unchanged (the Write error of
\* ensure_dir), as neither Defaulted nor Loaded.
C5_OnlyReadDefaults ==
    [][\A T \in Types :
          DoLoadOrDefault(T)
              => LET l == load(T, FS).res IN
                 /\ ret'.res.state = "Default" <=> l = Err("Read")
                 /\ ret'.res.state = "Default"
                        <=> (DirResolvable(T) /\ ~IsText(files[FilePath(T)]))
                 /\ (l.tag = "Err" /\ l.err # "Read") => ret'.res = l
                 /\ ~DirResolvable(T) => ret'.res = Err("Write")]_vars

\* C5 witness: load_or_default returned the Write error of ensure_dir.
C5_Witness ==
    /\ ret.op = "load_or_default"
    /\ ret.res = Err("Write")
    /\ ProjectDir(ret.ty) \notin dirs

\* C9: for every type (identity and kind), a successful dir() returns the
\* resolved directory and leaves it existing; called when the directory
\* exists it succeeds, returns the same path as the call before and changes
\* nothing; it never touches a file.
C9_EnsureDirIdempotent ==
    [][\A T \in Types :
          DoDir(T)
              => /\ files' = files
                 /\ ret'.res.tag = "Ok"
                        => /\ ret'.res.path = ProjectDir(T)
                           /\ ProjectDir(T) \in dirs'
                 /\ ProjectDir(T) \in dirs
                        => /\ ret'.res = Ok("", NoVal, ProjectDir(T))
                           /\ dirs' = dirs
                 /\ (ret.op = "dir" /\ ret.ty = T /\ ret.res.tag = "Ok")
                        => /\ ret'.res = ret.res
                           /\ dirs' = dirs]_vars

\* C9 witness: dir() succeeded for a Data type whose directory holds a file.
C9_Witness ==
    /\ ret.op = "dir"
    /\ ret.ty.kind = "Data"
    /\ ret.res = Ok("", NoVal, ProjectDir(ret.ty))
    /\ ProjectDir(ret.ty) \in dirs
    /\ IsText(files[FilePath(ret.ty)])

----------------------------------------------------------------------------
(* Two threads call save on the same type at the same time. fs::write is    *)
(* File::create followed by write_all, and nothing locks the file between   *)
(* them.                                                                    *)

Shared == MyConfig

Other(t) == CHOOSE u \in Threads : u # t

\* save up to fs::write: ensure_dir()? and to_string_pretty
SaveBegin(t, v) ==
    /\ pc[t] = "idle"
    /\ LET e == ensure_dir(Shared, FS) IN
       /\ dirs' = e.fs.dirs
       /\ IF e.res.tag = "Err"
          THEN /\ pc' = [pc EXCEPT ![t] = "done"]
               /\ tres' = [tres EXCEPT ![t] = e.res]
               /\ buf' = buf
          ELSE /\ pc' = [pc EXCEPT ![t] = "serialized"]
               /\ buf' = [buf EXCEPT ![t] = ToStringPretty(v)]
               /\ tres' = tres
    /\ UNCHANGED <<files, writableRoots, ret, saved, events, envVars>>

\* fs::write, first half: File::create
SaveCreate(t) ==
    /\ pc[t] = "serialized"
    /\ files' = [files EXCEPT ![FilePath(Shared)] = FileCreate(@)]
    /\ pc' = [pc EXCEPT ![t] = "created"]
    /\ events' = Append(events, <<"create", t>>)
    /\ UNCHANGED <<dirs, writableRoots, ret, saved, buf, tres, envVars>>

\* fs::write, second half: write_all, and save returns Ok(())
SaveWriteAll(t) ==
    /\ pc[t] = "created"
    /\ files' = [files EXCEPT ![FilePath(Shared)] = WriteAll(@, buf[t])]
    /\ pc' = [pc EXCEPT ![t] = "done"]
    /\ tres' = [tres EXCEPT ![t] = Ok("", NoVal, NoPath)]
    /\ events' = Append(events, <<"write", t>>)
    /\ UNCHANGED <<dirs, writableRoots, ret, saved, buf, envVars>>

\* what the shared file holds when the two saves start
StartContents ==
    {NoFile, Text(<<StrLine("name", "a"), IntLine("port", 0), IntLine("extra", 0)>>)}

InitConc ==
    /\ writableRoots \in SUBSET Roots
    /\ dirs \in SUBSET {ProjectDir(Shared)}
    /\ \E c \in StartContents :
          /\ c # NoFile => ProjectDir(Shared) \in dirs
          /\ files = [p \in AllFiles |-> IF p = FilePath(Shared) THEN c ELSE NoFile]
    /\ ret = [op |-> "none", ty |-> MyConfig, arg |-> NoVal, res |-> NoRes]
    /\ saved = [T \in Types |-> None]
    /\ IdleThreads
    /\ NoEnv

NextConc ==
    \/ \E t \in Threads, v \in Value : SaveBegin(t, v)
    \/ \E t \in Threads : SaveCreate(t)
    \/ \E t \in Threads : SaveWriteAll(t)

SpecConc == InitConc /\ [][NextConc]_vars

----------------------------------------------------------------------------
(* Claims about concurrent saves, checked under SpecConc *)

BothSaved == \A t \in Threads : pc[t] = "done" /\ tres[t].tag = "Ok"

\* the thread whose write_all finished last
LastWriter == events[Len(events)][2]

\* the two fs::write calls did not overlap: one wrote before the other created
Serial == events[2][1] = "write"

\* C10 as stated: once both concurrent saves returned Ok, the file holds the
\* serialization of the value whose write finished last, with no merge.
C10_LastWriterWins ==
    BothSaved => files[FilePath(Shared)] = Text(buf[LastWriter])

\* C10 amended: no save reports a conflict (the only error is the Write error
\* of ensure_dir); once both returned Ok the file starts with the text whose
\* write finished last, and it is exactly that text when the two fs::write
\* calls did not overlap; when they overlapped, the rest of the other,
\* longer text may follow it.
C10_LastWriterPrefix ==
    /\ \A t \in Threads :
          pc[t] = "done" =>
              \/ tres[t] = Ok("", NoVal, NoPath)
              \/ tres[t] = Err("Write") /\ ~DirResolvable(Shared)
    /\ BothSaved =>
          LET last == buf[LastWriter]
              other == buf[Other(LastWriter)]
              now == files[FilePath(Shared)]
          IN  /\ IsText(now)
              /\ now.text \in {last, last \o SubSeq(other, Len(last) + 1, Len(other))}
              /\ Serial => now.text = last

\* C10 witness: both saves returned Ok and the file holds neither text: the
\* name of the last writer followed by the port of the other.
C10_Witness ==
    /\ BothSaved
    /\ files[FilePath(Shared)].text \notin {buf[1], buf[2]}
    /\ FromStr(files[FilePath(Shared)].text).ok

----------------------------------------------------------------------------
(* The Env loader on its own *)

QuietDisk ==
    /\ dirs = {}
    /\ files = [p \in AllFiles |-> NoFile]
    /\ writableRoots = Roots
    /\ ret = [op |-> "none", ty |-> MyConfig, arg |-> NoVal, res |-> NoRes]
    /\ saved = [T \in Types |-> None]

InitEnv ==
    /\ QuietDisk
    /\ IdleThreads
    /\ envFile \in OverlayFiles
    /\ procEnv \in InitialEnvs
    /\ envRet = NoEnvRet
    /\ crashed = FALSE

NextEnv ==
    \/ DoEnvLoad
    \/ \E k \in QueryKeys : DoEnvEnv(k)
    \/ DoLibEnvLoad
    \/ \E k \in QueryKeys : DoLibEnvEnv(k)

SpecEnv == InitEnv /\ [][NextEnv]_vars

----------------------------------------------------------------------------
(* Claims about Env, checked under SpecEnv. The overlay the claims describe: *)
(* one entry per KEY=VALUE line, key and value trimmed, optional quotes      *)
(* around the value removed, comment lines and malformed lines left out.     *)

HasEq(line) == Len(SplitN2(line, "=")) = 2
KeyOf(line) == Trim(SplitN2(line, "=")[1])
RawValueOf(line) == Trim(SplitN2(line, "=")[2])

Unquote(v) ==
    IF Len(v) >= 2 /\ v[1] = "\"" /\ v[Len(v)] = "\""
    THEN SubSeq(v, 2, Len(v) - 1)
    ELSE v

IsComment(line) == StartsWith(line, "#")

IsKeyValue(line) ==
    /\ ~IsComment(line)
    /\ HasEq(line)
    /\ KeyOf(line) # <<>>
    /\ RawValueOf(line) # <<>>

\* the last KEY=VALUE line of a key defines it
Described(lines) ==
    { <<KeyOf(lines[i]), Unquote(RawValueOf(lines[i]))>> :
        i \in { j \in 1..Len(lines) :
                  /\ IsKeyValue(lines[j])
                  /\ \A h \in (j + 1)..Len(lines) :
                        IsKeyValue(lines[h]) => KeyOf(lines[h]) # KeyOf(lines[j]) } }

\* a file made of KEY=VALUE lines and comments only
WellFormed(file) ==
    file.kind = "text" =>
        \A i \in 1..Len(file.lines) :
            IsComment(file.lines[i]) \/ IsKeyValue(file.lines[i])

\* C6: Env::load returns one entry per KEY=VALUE line, key and value trimmed
\* and the optional quotes around the value removed, and none for a line
\* beginning with '#' (files made of KEY=VALUE lines and comments only).
C6_OneEntryPerLine ==
    (envRet.op = "load" /\ envFile.kind = "text" /\ WellFormed(envFile))
        => /\ envRet.status = "ok"
           /\ envRet.map = Described(envFile.lines)

\* C7: Env::env(K) returns Some(V) for a key the overlay file defines with
\* value V, whatever the process environment held for K, and answers from
\* the process environment for a key the file does not define (files made
\* of KEY=VALUE lines and comments only, or no file).
C7_OverlayWins ==
    [][\A k \in QueryKeys :
          (DoEnvEnv(k) /\ WellFormed(envFile))
              => /\ envRet'.status = "ok"
                 /\ envRet'.val =
                       IF envFile.kind = "text" /\ k \in KeysOf(Described(envFile.lines))
                       THEN Some(Get(Described(envFile.lines), k))
                       ELSE Lookup(procEnv, k)]_vars

\* C8: Env::load never fails or aborts, and a malformed line (no '=', empty
\* key, empty value) is skipped: it adds no entry, sets no environment
\* variable, and the well-formed lines around it are still loaded.
C8_MalformedSkipped ==
    [][DoEnvLoad
          => /\ envRet'.status = "ok"
             /\ envFile.kind = "text"
                   => /\ KeysOf(envRet'.map) = KeysOf(Described(envFile.lines))
                      /\ \A e \in procEnv' :
                            e \in procEnv \/ e[1] \in KeysOf(Described(envFile.lines))]_vars

====
